---------------------------- MODULE Spec2Model ----------------------------
(***************************************************************************)
(* A model of react-native-device-ai's Windows telemetry bridge.           *)
(*                                                                         *)
(* Three implementations live in the repository and are modelled here:     *)
(*   - ReactNativeDeviceAi  (windows/ReactNativeDeviceAi/*.cpp): the       *)
(*     promise based native module, one try/catch per probe;               *)
(*   - WindowsDeviceAIFabric (windows_t/DeviceAIFabric/src/*.cpp): the     *)
(*     collector with the static CPU delta sample;                         *)
(*   - DeviceAI (windows/DeviceAIFabric/src/DeviceAITurboModule.cpp): the  *)
(*     JSI turbo module that owns a fabric and offers getDeviceInfoAsync.  *)
(*                                                                         *)
(* Units.  TLC's integers are 32 bit, so byte counts are kept in GiB       *)
(* (2^30 bytes): 8589934592 bytes is 8, 549755813888 bytes is 512.  The    *)
(* code moves these values through uint64_t and double; every conversion   *)
(* between the two is exact below 2^53 bytes, which covers the domain.     *)
(* A double is kept as a reduced fraction <<n, d>>; d = 0 stands for the   *)
(* IEEE results of a division by zero (<<1, 0>> is +inf, <<0, 0>> is NaN). *)
(***************************************************************************)
EXTENDS Integers, Sequences, FiniteSets, TLC

VARIABLES
    os,            \* outcomes of the OS queries ReactNativeDeviceAi makes
    rnState,       \* ReactNativeDeviceAi: "constructed" | "initialized"
    rnComHr,       \* HRESULT of CoInitializeEx in Initialize ("none" before)
    rnPromise,     \* the ReactPromise of the last request and what was done to it
    pdh,           \* PDH queries the process holds open, and the PDH calls of the last probe
    fos,           \* outcomes of the OS queries WindowsDeviceAIFabric makes
    ticks,         \* the host's idle / kernel / user tick counters (GetSystemTimes)
    m_initialized, \* WindowsDeviceAIFabric::m_initialized
    cpuLast,       \* GetCPUUsage's statics lastIdleTime, lastKernelTime, lastUserTime
    module,        \* DeviceAI: "none" | "constructed" | "ctor_threw"
    call,          \* the last synchronous DeviceAI::getDeviceInfo call and its result
    req,           \* per getDeviceInfoAsync call: its worker thread, future and callbacks
    jsQueue,       \* callbacks handed to jsInvoker_->invokeAsync, not yet started
    jsBusy,        \* the request whose callback the JS thread is running (0: none)
    deliveries,    \* every resolve.call / reject.call made, in order
    sysinfo,       \* the last DeviceAI::getWindowsSystemInfo call and its result
    settings,      \* DeviceAI::m_apiKey, m_endpoint, m_enableWindowsNative
    probe,         \* the identity probe called last and what its last two calls returned
    features,      \* what the last two getSupportedFeatures calls returned
    earlier,       \* the snapshot before the last one, its CPU usage left out
    direct         \* a WindowsDeviceAIFabric used without DeviceAI: its calls so far

rnVars == <<os, rnState, rnComHr, rnPromise, pdh>>
asyncVars == <<req, jsQueue, jsBusy, deliveries>>
histVars == <<probe, features, earlier, direct>>
extVars == <<sysinfo, settings, histVars>>
fabricVars == <<fos, ticks, m_initialized, cpuLast, module, call, asyncVars, extVars>>
vars == <<os, rnState, rnComHr, rnPromise, pdh, fos, ticks, m_initialized, cpuLast, module, call,
          req, jsQueue, jsBusy, deliveries, sysinfo, settings, probe, features,
          earlier, direct>>

-----------------------------------------------------------------------------
(* Values *)

\* winrt IReference<T> / optional: absent or one value.
None == <<>>
Some(v) == <<v>>
HasValue(o) == Len(o) = 1
Value(o) == o[1]

\* The results of the last two calls of a method, by value.
NoFeatures == [calls |-> 0, first |-> <<>>, second |-> <<>>]
Returned(f, list) ==
    IF f.calls = 0
    THEN [calls |-> 1, first |-> list, second |-> <<>>]
    ELSE [calls |-> 2, first |-> IF f.calls = 1 THEN f.first ELSE f.second, second |-> list]

RECURSIVE GCD(_, _)
GCD(a, b) == IF b = 0 THEN a ELSE GCD(b, a % b)

\* The double n / d (n >= 0, d >= 0) as a reduced fraction.
Dbl(n, d) ==
    IF d = 0 THEN (IF n = 0 THEN <<0, 0>> ELSE <<1, 0>>)
    ELSE LET g == GCD(n, d) IN <<n \div g, d \div g>>

IsFinite(x) == x[2] # 0
\* lo <= x <= hi for a double x and integers lo, hi; false for inf and NaN.
InRange(x, lo, hi) == IsFinite(x) /\ lo * x[2] <= x[1] /\ x[1] <= hi * x[2]

DigitChar(d) ==
    CASE d = 0 -> "0" [] d = 1 -> "1" [] d = 2 -> "2" [] d = 3 -> "3"
      [] d = 4 -> "4" [] d = 5 -> "5" [] d = 6 -> "6" [] d = 7 -> "7"
      [] d = 8 -> "8" [] d = 9 -> "9"

\* std::to_string / operator<< of an unsigned integer.
RECURSIVE to_string(_)
to_string(n) ==
    IF n < 10 THEN DigitChar(n) ELSE to_string(n \div 10) \o DigitChar(n % 10)


-----------------------------------------------------------------------------
(* ReactNativeDeviceAi: the OS queries and what each can answer.           *)
(* An outcome's kind is "ok", "fail" (the API reports failure through its  *)
(* return value) or "throw" (an exception reaches the probe's catch (...)).*)

\* GlobalMemoryStatusEx: ullTotalPhys, ullAvailPhys (GiB); the OS keeps avail <= total.
MemStatus(k, t, a) == [kind |-> k, total |-> t, avail |-> a]
MemOutcomes ==
    {MemStatus("ok", 16, 8), MemStatus("ok", 4, 4),
     MemStatus("fail", 0, 0), MemStatus("throw", 0, 0)}

\* GetDiskFreeSpaceEx(L"C:\\"): totalNumberOfBytes, freeBytesAvailable (GiB).
DiskSpace(k, t, f) == [kind |-> k, total |-> t, free |-> f]
DiskOutcomes ==
    {DiskSpace("ok", 1024, 300), DiskSpace("ok", 256, 0),
     DiskSpace("fail", 0, 0), DiskSpace("throw", 0, 0)}

\* BatteryManager::GetBatteryReport(): throws, returns null, or a report whose
\* three properties are IReference<int32> (absent or a value, in mW / mWh).
BatteryReport(k, rem, full, rate) ==
    [kind |-> k, remaining |-> rem, full |-> full, rate |-> rate]
BatteryOutcomes ==
    {BatteryReport("throw", None, None, None), BatteryReport("null", None, None, None)}
    \cup {BatteryReport("report", rem, full, rate) :
            rem \in {None, Some(0), Some(50), Some(120)},
            full \in {None, Some(0), Some(100)},
            rate \in {None, Some(1), Some(-1)}}

\* GetSystemInfo (void, cannot report failure) and the PDH query of
\* "\Processor(_Total)\% Processor Time": pdh names the first PDH call that
\* fails ("open", "add", "format") or "ok" with the formatted doubleValue.
CpuQuery(k, c, p, v) == [kind |-> k, cores |-> c, pdh |-> p, value |-> v]
CpuOutcomes ==
    {CpuQuery("throw", 0, "open", Dbl(0, 1))}
    \cup {CpuQuery("ok", c, p, Dbl(0, 1)) : c \in {4, 12}, p \in {"open", "add", "format"}}
    \cup {CpuQuery("ok", c, "ok", v) : c \in {4, 12}, v \in {Dbl(0, 1), Dbl(75, 2), Dbl(100, 1)}}

\* NetworkInformation::GetInternetConnectionProfile(): throws, returns null, or a
\* profile whose NetworkAdapter() is null or has an IANA interface type.
NetProfile(k, ad) == [kind |-> k, adapter |-> ad]
NetOutcomes ==
    {NetProfile("throw", None), NetProfile("null", None), NetProfile("profile", None)}
    \cup {NetProfile("profile", Some(t)) : t \in {1, 6, 71, 244}}

\* GetVersionEx: dwMajorVersion, dwMinorVersion, dwBuildNumber.
OsVersionInfo(k, ma, mi, b) == [kind |-> k, major |-> ma, minor |-> mi, build |-> b]
VersionOutcomes ==
    {OsVersionInfo("ok", 10, 0, 19045), OsVersionInfo("ok", 6, 2, 9200),
     OsVersionInfo("fail", 0, 0, 0), OsVersionInfo("throw", 0, 0, 0)}

\* RegOpenKeyEx + RegQueryValueEx of one string value: kind names the call that
\* fails ("open", "query"), "throw", or "ok" with the value read.
RegValue(k, v) == [kind |-> k, value |-> v]
ProcessorRegOutcomes ==
    {RegValue("ok", "Intel(R) Core(TM) i7-12700K"), RegValue("ok", ""),
     RegValue("open", ""), RegValue("query", ""), RegValue("throw", "")}

-----------------------------------------------------------------------------
(* ReactNativeDeviceAi: the probes, each a function of its query's outcome. *)

RNGetMemoryInfo(m) ==
    IF m.kind = "ok"
    THEN [total |-> m.total, available |-> m.avail]
    ELSE [total |-> 8, available |-> 4]

RNGetStorageInfo(d) ==
    IF d.kind = "ok"
    THEN [total |-> d.total, available |-> d.free]
    ELSE [total |-> 512, available |-> 256]

\* `if (remainingCapacity && fullCapacity)` tests that both references are
\* non-null, not that the capacity is non-zero.
RNGetBatteryInfo(b) ==
    CASE b.kind = "throw" -> [level |-> Dbl(85, 1), isCharging |-> FALSE]
      [] b.kind = "null" -> [level |-> Dbl(100, 1), isCharging |-> FALSE]
      [] b.kind = "report" ->
            [level |-> IF HasValue(b.remaining) /\ HasValue(b.full)
                       THEN Dbl(Value(b.remaining) * 100, Value(b.full))
                       ELSE Dbl(85, 1),
             isCharging |-> HasValue(b.rate) /\ Value(b.rate) > 0]

GetCpuInfoZeroUsage(c) ==
    IF c.kind = "throw"
    THEN [usage |-> Dbl(25, 1), cores |-> 8]
    ELSE [usage |-> IF c.pdh = "ok" THEN c.value ELSE Dbl(0, 1),
          cores |-> c.cores]

GetCpuInfo(c) ==
    IF c.kind = "throw"
    THEN [usage |-> Dbl(25, 1), cores |-> 8]
    ELSE [usage |-> IF c.pdh = "ok" THEN c.value ELSE Dbl(25, 1),
          cores |-> c.cores]

IanaTypeName(t) ==
    CASE t = 6 -> "ethernet"
      [] t = 71 -> "wifi"
      [] t = 244 -> "cellular"
      [] OTHER -> "unknown"

\* GetNetworkInfo whose catch (...) names no network while it reports a connection.
RNGetNetworkInfoNoneOnThrow(n) ==
    CASE n.kind = "throw" -> [type |-> "none", isConnected |-> TRUE]
      [] n.kind = "null" -> [type |-> "none", isConnected |-> FALSE]
      [] n.kind = "profile" ->
            [type |-> IF HasValue(n.adapter) THEN IanaTypeName(Value(n.adapter))
                      ELSE "unknown",
             isConnected |-> TRUE]

RNGetNetworkInfo(n) ==
    CASE n.kind = "throw" -> [type |-> "wifi", isConnected |-> TRUE]
      [] n.kind = "null" -> [type |-> "none", isConnected |-> FALSE]
      [] n.kind = "profile" ->
            [type |-> IF HasValue(n.adapter) THEN IanaTypeName(Value(n.adapter))
                      ELSE "unknown",
             isConnected |-> TRUE]

RNGetOSVersion(v) ==
    IF v.kind = "ok"
    THEN to_string(v.major) \o "." \o to_string(v.minor) \o "." \o to_string(v.build)
    ELSE "10.0.22000"

RNGetProcessorInfo(r) ==
    IF r.kind = "ok" THEN r.value ELSE "Unknown Processor"

-----------------------------------------------------------------------------
(* ReactNativeDeviceAi: the queries and probes of getWindowsSystemInfo.    *)

\* "CurrentBuild" under HKLM\SOFTWARE\Microsoft\Windows NT\CurrentVersion.
BuildRegOutcomes ==
    {RegValue("ok", "19045"), RegValue("open", ""), RegValue("query", ""),
     RegValue("throw", "")}

\* GetNativeSystemInfo: wProcessorArchitecture (9 AMD64, 12 ARM64, 0 INTEL,
\* 5 ARM, 6 IA64), or an exception reaching the catch (...).
ArchInfo(k, a) == [kind |-> k, arch |-> a]
ArchOutcomes ==
    {ArchInfo("throw", 0)} \cup {ArchInfo("ok", a) : a \in {0, 5, 6, 9, 12}}

\* One PDH counter of GetPerformanceCounters.  The result of
\* PdhAddEnglishCounter is ignored there, so after a failed add the handle is
\* uninitialized and PdhGetFormattedCounterValue may answer anything.
PdhCounter(add, fmt, v) == [added |-> add, fmt |-> fmt, value |-> v]
PdhCounterOutcomes ==
    {PdhCounter(TRUE, "ok", Dbl(50, 1)), PdhCounter(TRUE, "fail", Dbl(0, 1)),
     PdhCounter(FALSE, "fail", Dbl(0, 1)), PdhCounter(FALSE, "ok", Dbl(999, 1))}

PerfQuery(k, c, m, d) == [kind |-> k, cpu |-> c, mem |-> m, disk |-> d]
PerfOutcomes ==
    {PerfQuery(k, PdhCounter(TRUE, "fail", Dbl(0, 1)), PdhCounter(TRUE, "fail", Dbl(0, 1)),
               PdhCounter(TRUE, "fail", Dbl(0, 1))) : k \in {"throw", "open"}}
    \cup {PerfQuery("ok", c, m, d) :
            c \in PdhCounterOutcomes, m \in PdhCounterOutcomes, d \in PdhCounterOutcomes}

\* One WQL query of GetWmiData: ExecQuery fails ("exec"), the enumerator has no
\* row ("empty"), the first row lacks the property or it is no BSTR ("noprop",
\* "notstring"), ConvertBSTRToString throws ("throw"), or the string is read.
WmiQuery(k, v) == [kind |-> k, value |-> v]
WmiQueryOutcomes(name) ==
    {WmiQuery(k, "") : k \in {"exec", "empty", "noprop", "notstring", "throw"}}
    \cup {WmiQuery("ok", name), WmiQuery("ok", "")}

\* CoCreateInstance(CLSID_WbemLocator) and ConnectServer, then the three queries.
WmiSession(l, c, cs, o, pr) ==
    [locator |-> l, connect |-> c, computerSystem |-> cs, operatingSystem |-> o,
     processor |-> pr]
WmiOutcomes ==
    {WmiSession(l, "fail", WmiQuery("exec", ""), WmiQuery("exec", ""), WmiQuery("exec", "")) :
        l \in {"fail", "throw", "ok"}}
    \cup {WmiSession("ok", "ok", cs, o, pr) :
            cs \in WmiQueryOutcomes("OptiPlex 7090"),
            o \in WmiQueryOutcomes("Microsoft Windows 11 Pro"),
            pr \in WmiQueryOutcomes("12th Gen Intel(R) Core(TM) i7-12700K")}

GetBuildNumberFirstCallOnly(r) ==
    IF r.kind = "ok" /\ probe.name # "RN.GetBuildNumber" THEN r.value ELSE "22000"

GetBuildNumber(r) ==
    IF r.kind = "ok" THEN r.value ELSE "22000"

GetSystemArchitecture(a) ==
    CASE a.kind = "throw" -> "x64"
      [] a.arch = 9 -> "x64"
      [] a.arch = 12 -> "ARM64"
      [] a.arch = 0 -> "x86"
      [] a.arch = 5 -> "ARM"
      [] OTHER -> "Unknown"

GetPerformanceCounters(p) ==
    IF p.kind = "ok"
    THEN [cpuUsage |-> IF p.cpu.fmt = "ok" THEN p.cpu.value ELSE Dbl(25, 1),
          memoryUsage |-> IF p.mem.fmt = "ok" THEN p.mem.value ELSE Dbl(65, 1),
          diskUsage |-> IF p.disk.fmt = "ok" THEN p.disk.value ELSE Dbl(15, 1)]
    ELSE [cpuUsage |-> Dbl(25, 1), memoryUsage |-> Dbl(65, 1), diskUsage |-> Dbl(15, 1)]

\* The rows a query's enumerator holds: none after "empty", else MaxRows (one
\* Win32_Processor row per socket).
MaxRows == 2
WmiRows(q) == IF q.kind = "empty" THEN 0 ELSE MaxRows

RECURSIVE EveryRow(_)
EveryRow(rows) == IF rows = 0 THEN 1 ELSE 1 + EveryRow(rows - 1)

\* Passes through one `while (pEnumerator)` body: Next is called, then the
\* loop is left by `if (0 == uReturn) break;` or, the row read, by the
\* trailing `break;`.
EnumerationPasses(rows) == IF rows = 0 THEN 1 ELSE 1

\* The loop is entered only after ExecQuery succeeded.
WmiLoopPasses(q) == IF q.kind = "exec" THEN 0 ELSE EnumerationPasses(WmiRows(q))

\* The string one enumeration loop leaves in its field: the property of the
\* first row when it is a BSTR, else the field stays empty.
WmiFirstRowString(q) == IF q.kind = "ok" THEN q.value ELSE ""

WmiFallback(s, fallback) == IF s = "" THEN fallback ELSE s

GetWmiData(w) ==
    LET session == w.locator = "ok" /\ w.connect = "ok"
        thrown == \/ w.locator = "throw"
                  \/ session /\ \E q \in {w.computerSystem, w.operatingSystem, w.processor} :
                                    q.kind = "throw"
    IN  IF thrown
        THEN [computerSystem |-> "Generic Windows Computer",
              operatingSystem |-> "Microsoft Windows",
              processor |-> "Unknown Processor"]
        ELSE [computerSystem |->
                  WmiFallback(IF session THEN WmiFirstRowString(w.computerSystem) ELSE "",
                              "Generic Windows Computer"),
              operatingSystem |->
                  WmiFallback(IF session THEN WmiFirstRowString(w.operatingSystem) ELSE "",
                              "Microsoft Windows"),
              processor |->
                  WmiFallback(IF session THEN WmiFirstRowString(w.processor) ELSE "",
                              "Unknown Processor")]

-----------------------------------------------------------------------------
(* ReactNativeDeviceAi: the hosts explored.                                *)
(* A host fixes the answer of every OS query for one behaviour.  The full  *)
(* product of the outcome sets is out of TLC's reach, so the hosts are: the*)
(* product of three outcomes per getDeviceInfo query (a reading and the    *)
(* ways to fail), and the healthy host with one query ranging over every   *)
(* outcome it has.                                                         *)

Host(m, d, b, c, n, v, pr, bl, ar, pf, w) ==
    [mem |-> m, sto |-> d, bat |-> b, cpu |-> c, net |-> n, ver |-> v, proc |-> pr,
     bld |-> bl, arch |-> ar, perf |-> pf, wmi |-> w]

HealthyHost ==
    Host(MemStatus("ok", 16, 8), DiskSpace("ok", 1024, 300),
         BatteryReport("report", Some(50), Some(100), Some(1)),
         CpuQuery("ok", 4, "ok", Dbl(75, 2)), NetProfile("profile", Some(71)),
         OsVersionInfo("ok", 10, 0, 19045), RegValue("ok", "Intel(R) Core(TM) i7-12700K"),
         RegValue("ok", "19045"), ArchInfo("ok", 9),
         PerfQuery("ok", PdhCounter(TRUE, "ok", Dbl(50, 1)), PdhCounter(TRUE, "ok", Dbl(50, 1)),
                   PdhCounter(TRUE, "ok", Dbl(50, 1))),
         WmiSession("ok", "ok", WmiQuery("ok", "OptiPlex 7090"),
                    WmiQuery("ok", "Microsoft Windows 11 Pro"),
                    WmiQuery("ok", "12th Gen Intel(R) Core(TM) i7-12700K")))

DeviceInfoHosts ==
    {[HealthyHost EXCEPT !.mem = m, !.sto = d, !.bat = b, !.cpu = c, !.net = n,
                         !.ver = v, !.proc = pr] :
        m \in {x \in MemOutcomes : x.total # 4},
        d \in {x \in DiskOutcomes : x.total # 256},
        b \in {HealthyHost.bat, BatteryReport("throw", None, None, None),
               BatteryReport("null", None, None, None),
               BatteryReport("report", None, None, None)},
        c \in {HealthyHost.cpu, CpuQuery("throw", 0, "open", Dbl(0, 1)),
               CpuQuery("ok", 4, "open", Dbl(0, 1))},
        n \in {HealthyHost.net, NetProfile("throw", None), NetProfile("null", None)},
        v \in {x \in VersionOutcomes : x.major # 6},
        pr \in {x \in ProcessorRegOutcomes : x.kind # "query" /\ x # RegValue("ok", "")}}

OneQueryHosts ==
    {[HealthyHost EXCEPT !.mem = x] : x \in MemOutcomes}
    \cup {[HealthyHost EXCEPT !.sto = x] : x \in DiskOutcomes}
    \cup {[HealthyHost EXCEPT !.bat = x] : x \in BatteryOutcomes}
    \cup {[HealthyHost EXCEPT !.cpu = x] : x \in CpuOutcomes}
    \cup {[HealthyHost EXCEPT !.net = x] : x \in NetOutcomes}
    \cup {[HealthyHost EXCEPT !.ver = x] : x \in VersionOutcomes}
    \cup {[HealthyHost EXCEPT !.proc = x] : x \in ProcessorRegOutcomes}
    \cup {[HealthyHost EXCEPT !.bld = x] : x \in BuildRegOutcomes}
    \cup {[HealthyHost EXCEPT !.arch = x] : x \in ArchOutcomes}
    \cup {[HealthyHost EXCEPT !.perf = x] : x \in PerfOutcomes}
    \cup {[HealthyHost EXCEPT !.wmi = x] : x \in WmiOutcomes}

RNHosts == DeviceInfoHosts \cup OneQueryHosts

-----------------------------------------------------------------------------
(* ReactNativeDeviceAi: the PDH calls of GetCpuInfo and                    *)
(* GetPerformanceCounters, in program order.                               *)

\* One call: its result is "ERROR_SUCCESS" or "error"; "unchecked" where the
\* code drops the status and nothing later depends on it (PdhCollectQueryData,
\* PdhCloseQuery), and the interval for Sleep.
PdhCall(api, result) == [api |-> api, result |-> result]
PdhStatus(ok) == IF ok THEN "ERROR_SUCCESS" ELSE "error"

SingleSample == <<PdhCall("PdhCollectQueryData", "unchecked")>>

\* PdhCollectQueryData(query); Sleep(100); PdhCollectQueryData(query);
DoubleSample ==
    <<PdhCall("PdhCollectQueryData", "unchecked"), PdhCall("Sleep", "100 ms"),
      PdhCall("PdhCollectQueryData", "unchecked")>>

PdhCallsOfGetCpuInfo(c) ==
    IF c.kind = "throw" THEN <<>>
    ELSE IF c.pdh = "open" THEN <<PdhCall("PdhOpenQuery", "error")>>
    ELSE IF c.pdh = "add"
    THEN <<PdhCall("PdhOpenQuery", "ERROR_SUCCESS"), PdhCall("PdhAddEnglishCounter", "error")>>
    ELSE <<PdhCall("PdhOpenQuery", "ERROR_SUCCESS"),
           PdhCall("PdhAddEnglishCounter", "ERROR_SUCCESS")>>
         \o DoubleSample
         \o <<PdhCall("PdhGetFormattedCounterValue", PdhStatus(c.pdh = "ok")),
              PdhCall("PdhCloseQuery", "unchecked")>>

PdhCallsOfGetPerformanceCounters(p) ==
    IF p.kind = "throw" THEN <<>>
    ELSE IF p.kind = "open" THEN <<PdhCall("PdhOpenQuery", "error")>>
    ELSE <<PdhCall("PdhOpenQuery", "ERROR_SUCCESS"),
           PdhCall("PdhAddEnglishCounter", PdhStatus(p.cpu.added)),
           PdhCall("PdhAddEnglishCounter", PdhStatus(p.mem.added)),
           PdhCall("PdhAddEnglishCounter", PdhStatus(p.disk.added))>>
         \o DoubleSample
         \o <<PdhCall("PdhGetFormattedCounterValue", PdhStatus(p.cpu.fmt = "ok")),
              PdhCall("PdhGetFormattedCounterValue", PdhStatus(p.mem.fmt = "ok")),
              PdhCall("PdhGetFormattedCounterValue", PdhStatus(p.disk.fmt = "ok")),
              PdhCall("PdhCloseQuery", "unchecked")>>

\* The queries a probe opened and the PdhCloseQuery calls it made.
Opened(calls) ==
    Len(SelectSeq(calls, LAMBDA x : x.api = "PdhOpenQuery" /\ x.result = "ERROR_SUCCESS"))
Closed(calls) == Len(SelectSeq(calls, LAMBDA x : x.api = "PdhCloseQuery"))

\* The process holds a query open until PdhCloseQuery names it.  MaxOpenQueries
\* bounds the handles the model lets the process accumulate.
MaxOpenQueries == 2
NoPdh == [open |-> 0, calls |-> <<>>]
AfterPdhCalls(before, calls) ==
    [open |-> before.open + Opened(calls) - Closed(calls), calls |-> calls]

-----------------------------------------------------------------------------
(* ReactNativeDeviceAi: the module.                                        *)

NoPromise ==
    [method |-> "none", resolves |-> 0, rejects |-> 0, value |-> <<>>, error |-> ""]

\* ReactPromise::Resolve / Reject on the promise the request came with.
Resolve(method, v) ==
    [method |-> method, resolves |-> 1, rejects |-> 0, value |-> v, error |-> ""]
Reject(method, msg) ==
    [method |-> method, resolves |-> 0, rejects |-> 1, value |-> <<>>, error |-> msg]

\* The record getDeviceInfo assembles inside its try block.
RNDeviceInfo(h) ==
    [platform |-> "windows",
     osVersion |-> RNGetOSVersion(h.ver),
     deviceModel |-> RNGetProcessorInfo(h.proc),
     memory |-> RNGetMemoryInfo(h.mem),
     storage |-> RNGetStorageInfo(h.sto),
     battery |-> RNGetBatteryInfo(h.bat),
     cpu |-> GetCpuInfo(h.cpu),
     network |-> RNGetNetworkInfo(h.net)]

\* The record getWindowsSystemInfo assembles inside its try block.
RNWindowsInfo(h) ==
    [osVersion |-> RNGetOSVersion(h.ver),
     buildNumber |-> GetBuildNumber(h.bld),
     processor |-> RNGetProcessorInfo(h.proc),
     architecture |-> GetSystemArchitecture(h.arch),
     performanceCounters |-> GetPerformanceCounters(h.perf),
     wmiData |-> GetWmiData(h.wmi)]

\* HRESULTs of CoInitializeEx and CoInitializeSecurity, and the FAILED macro.
CoInitializeExResults == {"S_OK", "S_FALSE", "RPC_E_CHANGED_MODE"}
CoInitializeSecurityResults == {"S_OK", "RPC_E_TOO_LATE", "E_OUTOFMEMORY"}
FAILED(hr) == hr \notin {"S_OK", "S_FALSE"}

\* CoInitializeEx(NULL, COINIT_MULTITHREADED): its HRESULT is discarded.
RNInitialize ==
    /\ rnState = "constructed"
    /\ \E hr \in CoInitializeExResults : rnComHr' = hr
    /\ rnState' = "initialized"
    /\ UNCHANGED <<os, rnPromise, pdh, fabricVars>>

\* The probes are noexcept and turn their own failures into fallbacks; the
\* catch (...) of the handler is reached only when assembling the record
\* itself throws (std::bad_alloc while a string is assigned).
RNgetDeviceInfo ==
    /\ rnState = "initialized"
    /\ pdh.open < MaxOpenQueries
    /\ \E assembly \in {"ok", "throw"}, probed \in BOOLEAN :
          /\ assembly = "ok" => probed
          /\ rnPromise' = IF assembly = "ok"
                          THEN Resolve("getDeviceInfo", RNDeviceInfo(os))
                          ELSE Reject("getDeviceInfo", "Failed to gather device information")
          /\ pdh' = IF probed THEN AfterPdhCalls(pdh, PdhCallsOfGetCpuInfo(os.cpu)) ELSE pdh
    /\ UNCHANGED <<os, rnState, rnComHr, fabricVars>>

RNgetWindowsSystemInfo ==
    /\ rnState = "initialized"
    /\ pdh.open < MaxOpenQueries
    /\ \E assembly \in {"ok", "throw"}, probed \in BOOLEAN :
          /\ assembly = "ok" => probed
          /\ rnPromise' = IF assembly = "ok"
                          THEN Resolve("getWindowsSystemInfo", RNWindowsInfo(os))
                          ELSE Reject("getWindowsSystemInfo",
                                      "Failed to gather Windows system information")
          /\ pdh' = IF probed
                    THEN AfterPdhCalls(pdh, PdhCallsOfGetPerformanceCounters(os.perf))
                    ELSE pdh
    /\ UNCHANGED <<os, rnState, rnComHr, fabricVars>>

RNSupportedFeatures ==
    <<"device-insights", "native-device-info", "windows-system-info", "wmi-queries",
      "performance-counters", "memory-info", "storage-info", "battery-info", "cpu-info",
      "network-info">>

\* ReactNativeDeviceAi::getSupportedFeatures, a synchronous method the host may
\* call before or after Initialize.
RNgetSupportedFeatures ==
    /\ rnState \in {"constructed", "initialized"}
    /\ features' = Returned(features, RNSupportedFeatures)
    /\ UNCHANGED <<rnVars, fos, ticks, m_initialized, cpuLast, module, call, asyncVars,
                   sysinfo, settings, probe, earlier, direct>>

-----------------------------------------------------------------------------
(* WindowsDeviceAIFabric: the OS queries and what each can answer.          *)

\* GetTotalPhysicalMemory and GetAvailablePhysicalMemory each call
\* GlobalMemoryStatusEx on an uninitialized MEMORYSTATUSEX and ignore its result:
\* after a failed call the fields returned hold whatever the stack held.
Garbage == {0, 900}
\* While a call succeeds avail <= total holds in the one struct it fills; between
\* two calls available memory moves, and so does total physical memory on a
\* guest with dynamic memory (the 8 GiB sample is such a host before growing).
FabricMemOutcomes ==
    {MemStatus("ok", 16, 8), MemStatus("ok", 16, 12), MemStatus("ok", 8, 4)}
    \cup {MemStatus("fail", t, a) : t \in Garbage, a \in Garbage}

FabricDiskOutcomes == {DiskSpace("ok", 1024, 300), DiskSpace("fail", 0, 0)}

\* GetSystemPowerStatus: BatteryLifePercent (0..100, 255 unknown) and
\* ACLineStatus (0 offline, 1 online, 255 unknown).
PowerStatus(k, pct, ac) == [kind |-> k, percent |-> pct, acLine |-> ac]
PowerOutcomes ==
    {PowerStatus("fail", 0, 0)}
    \cup {PowerStatus("ok", pct, ac) : pct \in {0, 77, 100, 255}, ac \in {0, 1, 255}}

\* EnumProcesses(processIds, sizeof(processIds), &bytesReturned).
ProcessList(k, bytes) == [kind |-> k, bytesReturned |-> bytes]
ProcessOutcomes == {ProcessList("ok", 480), ProcessList("fail", 0)}

FabricVersionOutcomes ==
    {OsVersionInfo("ok", 10, 0, 19045), OsVersionInfo("ok", 6, 2, 9200),
     OsVersionInfo("fail", 0, 0, 0)}

\* The steps of CollectDeviceInfo's try block, in order.  Those that allocate
\* (the stringstream of GetOSVersion, the query strings passed to QueryWMI, the
\* processor name) can throw std::bad_alloc; throwAt names the first that does,
\* 0 when none does.
StepOSVersion == 1
StepBuildNumber == 2
StepArchitecture == 3
StepProcessor == 4
StepTotalMemory == 5
StepAvailableMemory == 6
StepDisk == 7
StepBatteryLevel == 8
StepBatteryStatus == 9
StepUptime == 10
StepCpuUsage == 11
StepProcesses == 12
StepNetwork == 13
ThrowingSteps ==
    {StepOSVersion, StepBuildNumber, StepArchitecture, StepProcessor}

FabricHost(v, m1, m2, d, p1, p2, up, pl, th) ==
    [ver |-> v, mem1 |-> m1, mem2 |-> m2, disk |-> d, pow1 |-> p1, pow2 |-> p2,
     tickCount |-> up, procs |-> pl, throwAt |-> th]

HealthyFabricHost ==
    FabricHost(OsVersionInfo("ok", 10, 0, 19045), MemStatus("ok", 16, 8),
               MemStatus("ok", 16, 8), DiskSpace("ok", 1024, 300),
               PowerStatus("ok", 77, 1), PowerStatus("ok", 77, 1), 3600000,
               ProcessList("ok", 480), 0)

\* The hosts explored: every query healthy or failed, in every combination,
\* and the healthy host with one query ranging over every outcome it has.
FabricHosts ==
    {FabricHost(v, m1, m2, d, p1, p2, 3600000, pl, th) :
        v \in {HealthyFabricHost.ver, OsVersionInfo("fail", 0, 0, 0)},
        m1 \in {HealthyFabricHost.mem1, MemStatus("fail", 0, 900)},
        m2 \in {HealthyFabricHost.mem2, MemStatus("fail", 0, 900)},
        d \in FabricDiskOutcomes,
        p1 \in {HealthyFabricHost.pow1, PowerStatus("fail", 0, 0)},
        p2 \in {HealthyFabricHost.pow2, PowerStatus("fail", 0, 0)},
        pl \in ProcessOutcomes,
        th \in {0, StepProcessor}}
    \cup {[HealthyFabricHost EXCEPT !.mem1 = MemStatus("ok", 8, 4),
                                      !.mem2 = MemStatus("ok", 16, 12)]}
    \cup {[HealthyFabricHost EXCEPT !.ver = x] : x \in FabricVersionOutcomes}
    \cup {[HealthyFabricHost EXCEPT !.mem1 = x] : x \in FabricMemOutcomes}
    \cup {[HealthyFabricHost EXCEPT !.mem2 = x] : x \in FabricMemOutcomes}
    \cup {[HealthyFabricHost EXCEPT !.pow1 = x] : x \in PowerOutcomes}
    \cup {[HealthyFabricHost EXCEPT !.pow2 = x] : x \in PowerOutcomes}
    \cup {[HealthyFabricHost EXCEPT !.throwAt = x] : x \in ThrowingSteps}

-----------------------------------------------------------------------------
(* WindowsDeviceAIFabric: the probes.                                      *)

\* uint64_t arithmetic wraps.  2^64 is beyond TLC's integers, so the word is
\* scaled down to WordBits bits; every quantity of the model fits in it.
WordBits == 11
UInt64Modulus == 2 ^ WordBits
U64Sub(a, b) == (a - b + UInt64Modulus) % UInt64Modulus
U64Add(a, b) == (a + b) % UInt64Modulus

\* GetSystemTimes: it fails, or it fills idleTime, kernelTime, userTime.
SystemTimes(ok, t) == [ok |-> ok, idle |-> t.idle, kernel |-> t.kernel, user |-> t.user]
NoSample == [idle |-> 0, kernel |-> 0, user |-> 0]
SampleOf(st) == [idle |-> st.idle, kernel |-> st.kernel, user |-> st.user]

\* GetCPUUsage storing the sample only on the path that returns a usage.
GetCPUUsageStoreWithUsage(last, st) ==
    IF ~st.ok
    THEN [usage |-> Dbl(0, 1), last |-> last]
    ELSE LET idleDiff == U64Sub(st.idle, last.idle)
             totalDiff == U64Add(U64Sub(st.kernel, last.kernel), U64Sub(st.user, last.user))
         IN  IF last.idle # 0 /\ totalDiff > 0
             THEN [usage |-> Dbl(U64Sub(totalDiff, idleDiff) * 100, totalDiff),
                   last |-> SampleOf(st)]
             ELSE [usage |-> Dbl(0, 1), last |-> last]

\* One sequential run of GetCPUUsage from the statics `last` with GetSystemTimes
\* answering `st`: the value returned and the statics it leaves.
GetCPUUsage(last, st) ==
    IF ~st.ok
    THEN [usage |-> Dbl(0, 1), last |-> last]
    ELSE LET idleDiff == U64Sub(st.idle, last.idle)
             kernelDiff == U64Sub(st.kernel, last.kernel)
             userDiff == U64Sub(st.user, last.user)
             totalDiff == U64Add(kernelDiff, userDiff)
         IN  IF last.idle # 0 /\ totalDiff > 0
             THEN [usage |-> Dbl(U64Sub(totalDiff, idleDiff) * 100, totalDiff),
                   last |-> SampleOf(st)]
             ELSE [usage |-> Dbl(0, 1), last |-> SampleOf(st)]

FabricGetOSVersion(v) ==
    IF v.kind = "ok"
    THEN to_string(v.major) \o "." \o to_string(v.minor)
    ELSE "Unknown"

QueryWMI(query, property) == "Unknown"

FabricGetProcessorInfo == "Intel64 Family Processor"

GetTotalPhysicalMemory(m) == m.total

GetAvailablePhysicalMemory(m) == m.avail

GetBatteryLevelIfNative(p) ==
    IF settings.m_enableWindowsNative /\ p.kind = "ok" /\ p.percent # 255 THEN p.percent ELSE -1

GetBatteryLevel(p) ==
    IF p.kind = "ok" /\ p.percent # 255 THEN p.percent ELSE -1

GetBatteryStatus(p) ==
    CASE p.kind = "ok" /\ p.acLine = 1 -> "Charging"
      [] p.kind = "ok" /\ p.acLine = 0 -> "On Battery"
      [] OTHER -> "Unknown"

GetSystemUptime(h) == h.tickCount \div 1000

\* WindowsDeviceInfo info = {};
ZeroInfo ==
    [osVersion |-> "", buildNumber |-> "", architecture |-> "", processorName |-> "",
     totalMemory |-> 0, availableMemory |-> 0, totalDiskSpace |-> 0,
     availableDiskSpace |-> 0, batteryLevel |-> 0, batteryStatus |-> "",
     runningProcessCount |-> 0, systemUptime |-> 0, cpuUsage |-> Dbl(0, 1),
     networkStatus |-> ""]

\* A step of the try block has run to its end when no earlier step, nor the step
\* itself, threw; the catch (...) swallows the exception and what was assigned
\* before it is returned.
Ran(h, step) == h.throwAt = 0 \/ step < h.throwAt

\* CollectDeviceInfo on a fabric whose m_initialized is `initialized`: the
\* record returned and the statics GetCPUUsage leaves.
CollectDeviceInfo(initialized, h, last, st) ==
    IF ~initialized
    THEN [info |-> ZeroInfo, last |-> last]
    ELSE LET cpu == IF Ran(h, StepCpuUsage) THEN GetCPUUsage(last, st)
                    ELSE [usage |-> Dbl(0, 1), last |-> last]
             disk == Ran(h, StepDisk) /\ h.disk.kind = "ok"
         IN  [info |->
                [osVersion |-> IF Ran(h, StepOSVersion) THEN FabricGetOSVersion(h.ver) ELSE "",
                 buildNumber |->
                    IF Ran(h, StepBuildNumber)
                    THEN QueryWMI("SELECT BuildNumber FROM Win32_OperatingSystem", "BuildNumber")
                    ELSE "",
                 architecture |->
                    IF Ran(h, StepArchitecture)
                    THEN QueryWMI("SELECT OSArchitecture FROM Win32_OperatingSystem",
                                  "OSArchitecture")
                    ELSE "",
                 processorName |-> IF Ran(h, StepProcessor) THEN FabricGetProcessorInfo ELSE "",
                 totalMemory |->
                    IF Ran(h, StepTotalMemory) THEN GetTotalPhysicalMemory(h.mem1) ELSE 0,
                 availableMemory |->
                    IF Ran(h, StepAvailableMemory) THEN GetAvailablePhysicalMemory(h.mem2)
                    ELSE 0,
                 totalDiskSpace |-> IF disk THEN h.disk.total ELSE 0,
                 availableDiskSpace |-> IF disk THEN h.disk.free ELSE 0,
                 batteryLevel |-> IF Ran(h, StepBatteryLevel) THEN GetBatteryLevel(h.pow1) ELSE 0,
                 batteryStatus |->
                    IF Ran(h, StepBatteryStatus) THEN GetBatteryStatus(h.pow2) ELSE "",
                 runningProcessCount |->
                    IF Ran(h, StepProcesses) /\ h.procs.kind = "ok"
                    THEN h.procs.bytesReturned \div 4 ELSE 0,
                 systemUptime |-> IF Ran(h, StepUptime) THEN GetSystemUptime(h) ELSE 0,
                 cpuUsage |-> cpu.usage,
                 networkStatus |-> IF Ran(h, StepNetwork) THEN "Connected" ELSE ""],
              last |-> cpu.last]

-----------------------------------------------------------------------------
(* The identity probes, called on their own.                               *)

NoProbe == [name |-> "none", calls |-> 0, first |-> <<>>, second |-> <<>>]

\* The strings one call of an identity probe returns on ReactNativeDeviceAi's
\* host h or the fabric's host f; <<>> when the call throws std::bad_alloc
\* (the fabric's probes have no try block).
IdentityProbe(name, h, f) ==
    CASE name = "RN.GetWmiData" ->
            LET d == GetWmiData(h.wmi)
            IN  <<d.computerSystem, d.operatingSystem, d.processor>>
      [] name = "RN.GetOSVersion" -> <<RNGetOSVersion(h.ver)>>
      [] name = "RN.GetBuildNumber" -> <<GetBuildNumber(h.bld)>>
      [] name = "RN.GetProcessorInfo" -> <<RNGetProcessorInfo(h.proc)>>
      [] name = "RN.GetSystemArchitecture" -> <<GetSystemArchitecture(h.arch)>>
      [] name = "Fabric.GetOSVersion" ->
            IF f.throwAt = StepOSVersion THEN <<>> ELSE <<FabricGetOSVersion(f.ver)>>
      [] name = "Fabric.QueryWMI.BuildNumber" ->
            IF f.throwAt = StepBuildNumber THEN <<>>
            ELSE <<QueryWMI("SELECT BuildNumber FROM Win32_OperatingSystem", "BuildNumber")>>
      [] name = "Fabric.QueryWMI.OSArchitecture" ->
            IF f.throwAt = StepArchitecture THEN <<>>
            ELSE <<QueryWMI("SELECT OSArchitecture FROM Win32_OperatingSystem",
                            "OSArchitecture")>>
      [] name = "Fabric.GetProcessorInfo" ->
            IF f.throwAt = StepProcessor THEN <<>> ELSE <<FabricGetProcessorInfo>>

RNIdentityProbes ==
    {"RN.GetWmiData", "RN.GetOSVersion", "RN.GetBuildNumber", "RN.GetProcessorInfo",
     "RN.GetSystemArchitecture"}
FabricIdentityProbes ==
    {"Fabric.GetOSVersion", "Fabric.QueryWMI.BuildNumber", "Fabric.QueryWMI.OSArchitecture",
     "Fabric.GetProcessorInfo"}

\* One call of one identity probe.  None of them writes a member or a static:
\* the call leaves the module as it found it.
CallIdentityProbe ==
    /\ \E name \in RNIdentityProbes \cup FabricIdentityProbes :
          /\ name \in RNIdentityProbes => rnState = "initialized"
          /\ name \in FabricIdentityProbes => module = "constructed"
          /\ LET result == IdentityProbe(name, os, fos)
             IN  probe' = IF probe.name = name
                          THEN [name |-> name, calls |-> 2,
                                first |-> IF probe.calls = 1 THEN probe.first
                                          ELSE probe.second,
                                second |-> result]
                          ELSE [name |-> name, calls |-> 1, first |-> result,
                                second |-> <<>>]
    /\ UNCHANGED <<rnVars, asyncVars, sysinfo, settings, features, earlier, direct, fos,
                   ticks, m_initialized, cpuLast, module, call>>

-----------------------------------------------------------------------------
(* DeviceAI: the turbo module that owns a fabric.                          *)

\* windows/DeviceAIFabric: the flat JS object.
deviceInfoToJSI(info) ==
    [platform |-> "windows",
     platformVersion |-> info.osVersion,
     model |-> "Windows PC",
     totalMemory |-> info.totalMemory,
     usedMemory |-> U64Sub(info.totalMemory, info.availableMemory),
     totalStorage |-> info.totalDiskSpace,
     usedStorage |-> U64Sub(info.totalDiskSpace, info.availableDiskSpace),
     batteryLevel |-> info.batteryLevel,
     batteryState |-> info.batteryStatus,
     cpuUsage |-> info.cpuUsage,
     networkType |-> info.networkStatus,
     isCharging |-> (info.batteryStatus = "Charging"),
     screenResolution |-> "1920x1080"]

\* windows_t/DeviceAIFabric: the nested JS object.
deviceInfoToJSINested(info) ==
    [platform |-> "windows",
     osVersion |-> info.osVersion,
     deviceModel |-> "Windows PC",
     memory |-> [total |-> info.totalMemory, available |-> info.availableMemory],
     storage |-> [total |-> info.totalDiskSpace, available |-> info.availableDiskSpace],
     battery |-> [level |-> info.batteryLevel,
                  isCharging |-> (info.batteryStatus = "Charging")],
     cpu |-> [usage |-> info.cpuUsage, cores |-> 8],
     network |-> [type |-> info.networkStatus,
                  isConnected |-> (info.networkStatus # "Disconnected")]]

\* WindowsDeviceAIFabric::Initialize: its return value, which is also what it
\* leaves in m_initialized (false from the constructor when it returns early).
Initialize(hrInit, hrSecurity) ==
    IF FAILED(hrInit) THEN FALSE
    ELSE IF FAILED(hrSecurity) /\ hrSecurity # "RPC_E_TOO_LATE" THEN FALSE
    ELSE TRUE

\* The members the constructor's initialiser list leaves.
DefaultSettings == [m_apiKey |-> "", m_endpoint |-> "", m_enableWindowsNative |-> TRUE]

\* A jsi::Value: undefined, a string, a bool or a number.
JsValue(t, s, b) == [type |-> t, str |-> s, bool |-> b]
Undefined == JsValue("undefined", "", FALSE)
\* hasProperty is false for a property that is absent.
ConfigObjects ==
    [apiKey : {Undefined, JsValue("string", "sk-1", FALSE), JsValue("number", "", FALSE)},
     endpoint : {Undefined, JsValue("string", "https://ai.example", FALSE)},
     enableWindowsNative : {Undefined, JsValue("bool", "", FALSE), JsValue("bool", "", TRUE),
                            JsValue("string", "no", FALSE)}]

\* A record of CollectDeviceInfo with its cpuUsage blanked.
ButCpuUsage(info) == [info EXCEPT !.cpuUsage = Dbl(0, 1)]
NoEarlier == [taken |-> FALSE, info |-> ZeroInfo]

NoCall == [status |-> "none", info |-> ZeroInfo, object |-> <<>>,
           prior |-> NoSample, sample |-> SystemTimes(FALSE, NoSample)]

\* DeviceAI::DeviceAI: make the fabric, Initialize it, throw when that fails.
DeviceAICtor ==
    /\ module = "none"
    /\ \E hrInit \in CoInitializeExResults, hrSecurity \in CoInitializeSecurityResults :
          /\ m_initialized' = Initialize(hrInit, hrSecurity)
          /\ module' = IF Initialize(hrInit, hrSecurity) THEN "constructed" ELSE "ctor_threw"
    /\ settings' = DefaultSettings
    /\ UNCHANGED <<rnVars, sysinfo, histVars, asyncVars, fos, ticks, cpuLast, call>>

\* DeviceAI::getDeviceInfo on the JS thread: CollectDeviceInfo, then the JS
\* object; a std::exception from building the object leaves as a JSError.
getDeviceInfo ==
    /\ module = "constructed"
    /\ \E ok \in BOOLEAN, jsi \in {"ok", "throw"} :
          LET st == SystemTimes(ok, IF ok THEN ticks ELSE NoSample)
              r == CollectDeviceInfo(m_initialized, fos, cpuLast, st)
          IN  /\ cpuLast' = r.last
              /\ call' = [status |-> IF jsi = "ok" THEN "returned" ELSE "JSError",
                          info |-> r.info,
                          object |-> IF jsi = "ok" THEN deviceInfoToJSI(r.info) ELSE <<>>,
                          prior |-> cpuLast, sample |-> st]
    /\ earlier' = IF call.status = "none" THEN NoEarlier
                  ELSE [taken |-> TRUE, info |-> ButCpuUsage(call.info)]
    /\ UNCHANGED <<rnVars, sysinfo, settings, probe, features, direct, asyncVars, fos, ticks,
                   m_initialized, module>>

\* WindowsDeviceAIFabric::GetPerformanceMetrics: GetCPUUsage, then the memory
\* ratio from three further GlobalMemoryStatusEx calls (two for the total, one
\* for the available bytes); the division is a double division.
GetPerformanceMetrics(h, last, st) ==
    LET cpu == GetCPUUsage(last, st)
        used == U64Sub(GetTotalPhysicalMemory(h.mem1), GetAvailablePhysicalMemory(h.mem2))
    IN  [metrics |-> [cpu_usage |-> cpu.usage,
                      memory_usage |-> Dbl(used * 100, GetTotalPhysicalMemory(h.mem1))],
         last |-> cpu.last]

\* GetMemoryInfo makes four GlobalMemoryStatusEx calls, one per Get...Memory
\* call; the host's memory status changes from mem1 to mem2 after the k-th.
MemoryReads(h) == {[i \in 1..4 |-> IF i <= k THEN h.mem1 ELSE h.mem2] : k \in 0..4}

\* WindowsDeviceAIFabric::GetMemoryInfo, its four reads being rd[1] .. rd[4].
FabricGetMemoryInfo(rd) ==
    [total |-> GetTotalPhysicalMemory(rd[1]),
     available |-> GetAvailablePhysicalMemory(rd[2]),
     used |-> U64Sub(GetTotalPhysicalMemory(rd[3]), GetAvailablePhysicalMemory(rd[4]))]

\* WindowsDeviceAIFabric::GetStorageInfo: the entries of drive "C:", from one
\* GetDiskFreeSpaceEx call; no drive is listed when the call fails.
FabricGetStorageInfo(h) ==
    IF h.disk.kind = "ok"
    THEN <<[total |-> h.disk.total, available |-> h.disk.free,
            used |-> U64Sub(h.disk.total, h.disk.free)]>>
    ELSE <<>>

\* DeviceAI::mapToJSI: one property per entry of the map.
mapToJSI(map) == [k \in DOMAIN map |-> map[k]]

NoSysInfo == [status |-> "none", object |-> <<>>, prior |-> NoSample,
              sample |-> SystemTimes(FALSE, NoSample)]

\* DeviceAI::getWindowsSystemInfo on the JS thread.
getWindowsSystemInfo ==
    /\ module = "constructed"
    /\ \E ok \in BOOLEAN, jsi \in {"ok", "throw"},
          memoryInfo \in {FabricGetMemoryInfo(rd) : rd \in MemoryReads(fos)} :
          LET st == SystemTimes(ok, IF ok THEN ticks ELSE NoSample)
              r == GetPerformanceMetrics(fos, cpuLast, st)
          IN  /\ cpuLast' = r.last
              /\ sysinfo' =
                    [status |-> IF jsi = "ok" THEN "returned" ELSE "JSError",
                     object |->
                        IF jsi = "ok"
                        THEN [wmiData |-> [osVersion |-> "Windows 11", buildNumber |-> "22000"],
                              performanceCounters |-> mapToJSI(r.metrics),
                              systemMetrics |-> mapToJSI(memoryInfo)]
                        ELSE <<>>,
                     prior |-> cpuLast, sample |-> st]
    /\ UNCHANGED <<rnVars, asyncVars, settings, histVars, fos, ticks, m_initialized, module, call>>

\* DeviceAI::configure: the three property blocks in order; `done` of them have
\* completed when a jsi call throws (3: none does), and the exception leaves
\* as a JSError with the members assigned so far.
configure ==
    /\ module = "constructed"
    /\ \E config \in ConfigObjects, done \in 0..3 :
          settings' =
              [m_apiKey |-> IF done >= 1 /\ config.apiKey.type = "string"
                            THEN config.apiKey.str ELSE settings.m_apiKey,
               m_endpoint |-> IF done >= 2 /\ config.endpoint.type = "string"
                              THEN config.endpoint.str ELSE settings.m_endpoint,
               m_enableWindowsNative |->
                    IF done >= 3 /\ config.enableWindowsNative.type = "bool"
                    THEN config.enableWindowsNative.bool
                    ELSE settings.m_enableWindowsNative]
    /\ UNCHANGED <<rnVars, asyncVars, sysinfo, histVars, fos, ticks, m_initialized, cpuLast,
                   module, call>>

DeviceAISupportedFeaturesIfNative ==
    IF settings.m_enableWindowsNative
    THEN <<"windows-system-info", "wmi-queries", "performance-counters", "device-insights">>
    ELSE <<"device-insights">>

DeviceAISupportedFeatures ==
    <<"windows-system-info", "wmi-queries", "performance-counters", "device-insights">>

\* DeviceAI::getSupportedFeatures: the array it builds, or the JSError of a
\* jsi call that throws (then nothing is returned).
getSupportedFeatures ==
    /\ module = "constructed"
    /\ \E jsi \in {"ok", "throw"} :
          features' = IF jsi = "ok" THEN Returned(features, DeviceAISupportedFeatures)
                      ELSE features
    /\ UNCHANGED <<rnVars, asyncVars, sysinfo, settings, probe, earlier, direct, fos, ticks,
                   m_initialized, cpuLast, module, call>>

\* The host runs: idle, kernel and user time advance (kernel time includes idle
\* time).  MaxTick bounds the counters.
MaxTick == 3
HostTick ==
    /\ \E di \in 0..1, dk \in 0..1, du \in 0..1 :
          /\ di + dk + du > 0
          /\ ticks.kernel + di + dk <= MaxTick
          /\ ticks.user + du <= MaxTick
          /\ ticks' = [idle |-> ticks.idle + di, kernel |-> ticks.kernel + di + dk,
                       user |-> ticks.user + du]
    /\ UNCHANGED <<rnVars, extVars, asyncVars, fos, m_initialized, cpuLast, module, call>>

-----------------------------------------------------------------------------
(* DeviceAI::getDeviceInfoAsync: a packaged_task run by a detached thread,  *)
(* and a callback on the JS thread that waits for its future.               *)

MaxRequests == 2
Requests == 1..MaxRequests

\* One request.  pc is where its worker thread stands; st, seen, rd and usage
\* are GetCPUUsage's locals on that thread; result is the future's shared state.
NoRequest ==
    [pc |-> "none", st |-> SystemTimes(FALSE, NoSample), seen |-> 0, rd |-> NoSample,
     usage |-> Dbl(0, 1), result |-> [kind |-> "pending", what |-> ""],
     resolves |-> 0, rejects |-> 0, value |-> <<>>, error |-> ""]

AsyncIdle ==
    /\ req = [r \in Requests |-> NoRequest]
    /\ jsQueue = <<>>
    /\ jsBusy = 0
    /\ deliveries = <<>>

Issued == {r \in Requests : req[r].pc # "none"}

invokeAsyncWhenIdle(queue, r) == IF queue = <<>> THEN Append(queue, r) ELSE queue

\* CallInvoker::invokeAsync: the callback joins the JS thread's queue.
invokeAsync(queue, r) == Append(queue, r)

\* (*task)() has returned: the packaged_task holds getDeviceInfo's value, or
\* the exception it threw (getDeviceInfo turns a std::exception into a JSError).
TaskResult(info, jsi) ==
    IF jsi = "ok"
    THEN [kind |-> "value", object |-> deviceInfoToJSI(info)]
    ELSE [kind |-> "exception", what |-> "Failed to get device info"]

SettleValueOnly(result) ==
    IF result.kind = "value"
    THEN [resolves |-> 1, rejects |-> 0, value |-> result.object, error |-> ""]
    ELSE [resolves |-> 0, rejects |-> 0, value |-> <<>>, error |-> ""]

\* The callback's try / catch around future.get(): resolve.call with the value,
\* or reject.call with the JSError made from e.what().  resolve and reject are
\* the settling functions of the promise the caller waits on; they return.
Settle(result) ==
    IF result.kind = "value"
    THEN [resolves |-> 1, rejects |-> 0, value |-> result.object, error |-> ""]
    ELSE [resolves |-> 0, rejects |-> 1, value |-> <<>>, error |-> result.what]

\* getDeviceInfoAsync on the JS thread: make the task, detach a thread that
\* runs it, hand the callback to the invoker.  MaxRequests bounds the calls.
getDeviceInfoAsync ==
    /\ module = "constructed"
    /\ jsBusy = 0
    /\ Cardinality(Issued) < MaxRequests
    /\ LET r == Cardinality(Issued) + 1
       IN  /\ req' = [req EXCEPT ![r].pc = "start"]
           /\ jsQueue' = invokeAsync(jsQueue, r)
    /\ UNCHANGED <<rnVars, extVars, fos, ticks, m_initialized, cpuLast, module, call, jsBusy, deliveries>>

\* Worker thread, CollectDeviceInfo up to GetCPUUsage's GetSystemTimes.
WorkerSample(r) ==
    /\ req[r].pc = "start"
    /\ \E ok \in BOOLEAN :
          LET st == SystemTimes(ok, IF ok THEN ticks ELSE NoSample)
          IN  req' = [req EXCEPT ![r] =
                 IF ~Ran(fos, StepCpuUsage) THEN [@ EXCEPT !.pc = "build"]
                 ELSE IF ~ok THEN [@ EXCEPT !.pc = "build", !.st = st]
                 ELSE [@ EXCEPT !.st = st, !.pc = "test"]]
    /\ UNCHANGED <<rnVars, extVars, fos, ticks, m_initialized, cpuLast, module, call,
                   jsQueue, jsBusy, deliveries>>

\* if (lastIdleTime != 0)
WorkerTest(r) ==
    /\ req[r].pc = "test"
    /\ req' = [req EXCEPT ![r].seen = cpuLast.idle,
                          ![r].pc = IF cpuLast.idle # 0 THEN "readIdle" ELSE "writeIdle"]
    /\ UNCHANGED <<rnVars, extVars, fos, ticks, m_initialized, cpuLast, module, call,
                   jsQueue, jsBusy, deliveries>>

\* idleDiff = idle - lastIdleTime
WorkerReadIdle(r) ==
    /\ req[r].pc = "readIdle"
    /\ req' = [req EXCEPT ![r].rd.idle = cpuLast.idle, ![r].pc = "readKernel"]
    /\ UNCHANGED <<rnVars, extVars, fos, ticks, m_initialized, cpuLast, module, call,
                   jsQueue, jsBusy, deliveries>>

\* kernelDiff = kernel - lastKernelTime
WorkerReadKernel(r) ==
    /\ req[r].pc = "readKernel"
    /\ req' = [req EXCEPT ![r].rd.kernel = cpuLast.kernel, ![r].pc = "readUser"]
    /\ UNCHANGED <<rnVars, extVars, fos, ticks, m_initialized, cpuLast, module, call,
                   jsQueue, jsBusy, deliveries>>

\* userDiff = user - lastUserTime, totalDiff, and the usage when totalDiff > 0
WorkerReadUser(r) ==
    /\ req[r].pc = "readUser"
    /\ LET rd == [req[r].rd EXCEPT !.user = cpuLast.user]
       IN  req' = [req EXCEPT ![r].rd = rd, ![r].pc = "writeIdle",
                              ![r].usage = GetCPUUsage(rd, req[r].st).usage]
    /\ UNCHANGED <<rnVars, extVars, fos, ticks, m_initialized, cpuLast, module, call,
                   jsQueue, jsBusy, deliveries>>

\* lastIdleTime = idle
WorkerWriteIdle(r) ==
    /\ req[r].pc = "writeIdle"
    /\ cpuLast' = [cpuLast EXCEPT !.idle = req[r].st.idle]
    /\ req' = [req EXCEPT ![r].pc = "writeKernel"]
    /\ UNCHANGED <<rnVars, extVars, fos, ticks, m_initialized, module, call, jsQueue, jsBusy, deliveries>>

\* lastKernelTime = kernel
WorkerWriteKernel(r) ==
    /\ req[r].pc = "writeKernel"
    /\ cpuLast' = [cpuLast EXCEPT !.kernel = req[r].st.kernel]
    /\ req' = [req EXCEPT ![r].pc = "writeUser"]
    /\ UNCHANGED <<rnVars, extVars, fos, ticks, m_initialized, module, call, jsQueue, jsBusy, deliveries>>

\* lastUserTime = user
WorkerWriteUser(r) ==
    /\ req[r].pc = "writeUser"
    /\ cpuLast' = [cpuLast EXCEPT !.user = req[r].st.user]
    /\ req' = [req EXCEPT ![r].pc = "build"]
    /\ UNCHANGED <<rnVars, extVars, fos, ticks, m_initialized, module, call, jsQueue, jsBusy, deliveries>>

\* The record this worker's CollectDeviceInfo returns: every field but cpuUsage
\* is independent of the statics.
WorkerInfo(r) ==
    [CollectDeviceInfo(m_initialized, fos, NoSample, req[r].st).info
        EXCEPT !.cpuUsage = req[r].usage]

\* Worker thread, the rest of CollectDeviceInfo; deviceInfoToJSI(rt, info) is
\* entered and makes its first call into the runtime, Object(rt).
WorkerToJSI(r) ==
    /\ req[r].pc = "build"
    /\ req' = [req EXCEPT ![r].pc = "jsi"]
    /\ UNCHANGED <<rnVars, extVars, fos, ticks, m_initialized, cpuLast, module, call,
                   jsQueue, jsBusy, deliveries>>

\* Worker thread, the setProperty calls of deviceInfoToJSI, and the
\* packaged_task storing what getDeviceInfo returned or threw.
WorkerBuild(r) ==
    /\ req[r].pc = "jsi"
    /\ \E jsi \in {"ok", "throw"} :
          req' = [req EXCEPT ![r].pc = "done",
                             ![r].result = TaskResult(WorkerInfo(r), jsi)]
    /\ UNCHANGED <<rnVars, extVars, fos, ticks, m_initialized, cpuLast, module, call,
                   jsQueue, jsBusy, deliveries>>

Worker ==
    \E r \in Requests :
        \/ WorkerSample(r) \/ WorkerTest(r) \/ WorkerReadIdle(r) \/ WorkerReadKernel(r) \/ WorkerReadUser(r)
        \/ WorkerWriteIdle(r) \/ WorkerWriteKernel(r) \/ WorkerWriteUser(r)
        \/ WorkerToJSI(r) \/ WorkerBuild(r)

FutureReadyAtOnce(result) == TRUE

\* future.get() blocks until the packaged_task has stored a value or an
\* exception in the shared state.
FutureReady(result) == result.kind # "pending"

\* The JS thread takes the next callback and enters future.get().
JsRunCallback ==
    /\ jsBusy = 0
    /\ jsQueue # <<>>
    /\ jsBusy' = Head(jsQueue)
    /\ jsQueue' = Tail(jsQueue)
    /\ UNCHANGED <<rnVars, extVars, fos, ticks, m_initialized, cpuLast, module, call, req, deliveries>>

\* future.get() returns or rethrows once the task has run; the callback calls
\* resolve or reject and ends.
JsDeliver ==
    /\ jsBusy # 0
    /\ FutureReady(req[jsBusy].result)
    /\ LET s == Settle(req[jsBusy].result)
       IN  /\ req' = [req EXCEPT ![jsBusy].resolves = @ + s.resolves,
                                 ![jsBusy].rejects = @ + s.rejects,
                                 ![jsBusy].value = s.value,
                                 ![jsBusy].error = s.error,
                                 ![jsBusy].pc = "delivered"]
           /\ deliveries' = deliveries
                 \o (IF s.resolves = 1 THEN <<[id |-> jsBusy, kind |-> "resolve"]>> ELSE <<>>)
                 \o (IF s.rejects = 1 THEN <<[id |-> jsBusy, kind |-> "reject"]>> ELSE <<>>)
    /\ jsBusy' = 0
    /\ UNCHANGED <<rnVars, extVars, fos, ticks, m_initialized, cpuLast, module, call, jsQueue>>

TickStates ==
    {t \in [idle : 0..MaxTick, kernel : 0..MaxTick, user : 0..MaxTick] : t.idle <= t.kernel}

\* Tick counters at the model's horizon: HostTick cannot advance them.
StoppedTicks == {t \in TickStates : t.kernel = MaxTick /\ t.user = MaxTick /\ t.idle \in {0, 2}}

-----------------------------------------------------------------------------
(* WindowsDeviceAIFabric used on its own, as its public interface allows.    *)

\* The probes CollectDeviceInfo enters: none before the m_initialized test
\* lets it through, then every step of the try block up to the one that throws.
ProbesEntered(initialized, h) ==
    IF ~initialized THEN {}
    ELSE {step \in StepOSVersion..StepNetwork : h.throwAt = 0 \/ step <= h.throwAt}

\* m_initialized after a call of Initialize that found it `was`: line 54 is
\* its only assignment, the failing paths return without touching it.
AfterInitializeReset(was, hrInit, hrSecurity) == Initialize(hrInit, hrSecurity)
AfterInitialize(was, hrInit, hrSecurity) == was \/ Initialize(hrInit, hrSecurity)

\* WindowsDeviceAIFabric::SupportsFeature
SupportsFeature(feature, initialized, h) ==
    IF feature = "battery" THEN GetBatteryLevel(h.pow1) >= 0
    ELSE IF feature = "wmi" THEN initialized
    ELSE FALSE

NoDirect == [initOk |-> FALSE, collected |-> FALSE, okAtCall |-> FALSE, probes |-> {},
             feature |-> "", supported |-> FALSE, okAtQuery |-> FALSE]

\* fabric.Initialize(), any number of times; initOk remembers a true return.
FabricInitialize ==
    /\ module = "none"
    /\ \E hrInit \in CoInitializeExResults, hrSecurity \in CoInitializeSecurityResults :
          /\ m_initialized' = AfterInitialize(m_initialized, hrInit, hrSecurity)
          /\ direct' = [direct EXCEPT !.initOk = @ \/ Initialize(hrInit, hrSecurity)]
    /\ UNCHANGED <<rnVars, asyncVars, sysinfo, settings, probe, features, earlier, fos, ticks,
                   cpuLast, module, call>>

\* fabric.CollectDeviceInfo(), whatever Initialize has returned so far.
FabricCollectDeviceInfo ==
    /\ module = "none"
    /\ \E ok \in BOOLEAN :
          LET st == SystemTimes(ok, IF ok THEN ticks ELSE NoSample)
              r == CollectDeviceInfo(m_initialized, fos, cpuLast, st)
          IN  /\ cpuLast' = r.last
              /\ call' = [status |-> "collected", info |-> r.info, object |-> <<>>,
                          prior |-> cpuLast, sample |-> st]
    /\ direct' = [direct EXCEPT !.collected = TRUE, !.okAtCall = direct.initOk,
                                !.probes = ProbesEntered(m_initialized, fos)]
    /\ UNCHANGED <<rnVars, asyncVars, sysinfo, settings, probe, features, earlier, fos, ticks,
                   m_initialized, module>>

\* fabric.SupportsFeature(feature)
FabricSupportsFeature ==
    /\ module = "none"
    /\ \E feature \in {"battery", "wmi", "gpu"} :
          direct' = [direct EXCEPT !.feature = feature,
                                   !.supported = SupportsFeature(feature, m_initialized, fos),
                                   !.okAtQuery = direct.initOk]
    /\ UNCHANGED <<rnVars, asyncVars, sysinfo, settings, probe, features, earlier, fos, ticks,
                   m_initialized, cpuLast, module, call>>

-----------------------------------------------------------------------------
\* The process loads ReactNativeDeviceAi, or it does not.
RNLoaded ==
    /\ rnState = "constructed"
    /\ rnComHr = "none"
    /\ rnPromise = NoPromise
    /\ pdh = NoPdh

RNAbsent ==
    /\ os = HealthyHost
    /\ rnState = "absent"
    /\ rnComHr = "none"
    /\ rnPromise = NoPromise
    /\ pdh = NoPdh

\* The process is about to construct DeviceAI, or it never does.
DeviceAILoaded ==
    /\ m_initialized = FALSE
    /\ cpuLast = NoSample
    /\ module = "none"
    /\ call = NoCall
    /\ sysinfo = NoSysInfo
    /\ settings = DefaultSettings
    /\ probe = NoProbe
    /\ features = NoFeatures
    /\ earlier = NoEarlier
    /\ direct = NoDirect
    /\ AsyncIdle

DeviceAIAbsent ==
    /\ fos = HealthyFabricHost
    /\ ticks \in {t \in StoppedTicks : t.idle = 0}
    /\ m_initialized = FALSE
    /\ cpuLast = NoSample
    /\ module = "absent"
    /\ call = NoCall
    /\ sysinfo = NoSysInfo
    /\ settings = DefaultSettings
    /\ probe = NoProbe
    /\ features = NoFeatures
    /\ earlier = NoEarlier
    /\ direct = NoDirect
    /\ AsyncIdle

\* ReactNativeDeviceAi over every host.
InitRN ==
    /\ os \in RNHosts
    /\ RNLoaded
    /\ DeviceAIAbsent

NextRN == RNInitialize \/ RNgetDeviceInfo \/ RNgetWindowsSystemInfo

SpecRN == InitRN /\ [][NextRN]_vars

\* DeviceAI and its fabric over every host, the tick counters standing still.
InitFabric ==
    /\ fos \in FabricHosts
    /\ ticks \in StoppedTicks
    /\ DeviceAILoaded
    /\ RNAbsent

NextFabric == DeviceAICtor \/ getDeviceInfo \/ getWindowsSystemInfo

SpecFabric == InitFabric /\ [][NextFabric]_vars

\* The CPU delta sampler over every run of the tick counters, on a healthy host.
InitCpu ==
    /\ fos = HealthyFabricHost
    /\ ticks \in {t \in TickStates : t.kernel <= 1 /\ t.user <= 1}
    /\ DeviceAILoaded
    /\ RNAbsent

NextCpu == DeviceAICtor \/ getDeviceInfo \/ HostTick

SpecCpu == InitCpu /\ [][NextCpu]_vars

\* A fabric held without a DeviceAI, over every host.
NextDirect == FabricInitialize \/ FabricCollectDeviceInfo \/ FabricSupportsFeature

SpecDirect == InitFabric /\ [][NextDirect]_vars

\* The asynchronous requests of DeviceAI, their workers racing on GetCPUUsage's
\* statics while the host's counters advance.
AsyncHosts == {HealthyFabricHost, [HealthyFabricHost EXCEPT !.throwAt = StepProcessor]}

InitAsync ==
    /\ fos \in AsyncHosts
    /\ ticks = [idle |-> 1, kernel |-> MaxTick - 1, user |-> MaxTick - 1]
    /\ DeviceAILoaded
    /\ RNAbsent

NextAsync ==
    DeviceAICtor \/ getDeviceInfoAsync \/ Worker \/ JsRunCallback \/ JsDeliver \/ HostTick

SpecAsync == InitAsync /\ [][NextAsync]_vars

\* Every request that settles a promise: ReactNativeDeviceAi's methods and
\* DeviceAI::getDeviceInfoAsync.
InitPromise == InitRN \/ InitAsync

NextPromise == NextRN \/ NextAsync

SpecPromise == InitPromise /\ [][NextPromise]_vars

\* The same, with the scheduling the platform gives: a detached thread keeps
\* running, and the JS thread runs the callbacks queued on it.
SpecPromiseLive ==
    SpecPromise /\ WF_vars(Worker) /\ WF_vars(JsRunCallback) /\ WF_vars(JsDeliver)

\* Both synchronous collectors: a process that loads one module or the other.
Init == InitRN \/ InitFabric

Next == NextRN \/ NextFabric

Spec == Init /\ [][Next]_vars

\* The identity probes of either module, called in any order.
NextIdentity == RNInitialize \/ DeviceAICtor \/ CallIdentityProbe

SpecIdentity == Init /\ [][NextIdentity]_vars

\* Feature queries and configure calls on either module, over every host.
NextFeatures ==
    RNInitialize \/ RNgetSupportedFeatures \/ DeviceAICtor \/ configure \/ getSupportedFeatures

SpecFeatures == Init /\ [][NextFeatures]_vars

\* Snapshot requests on DeviceAI among configure calls and feature queries.
SessionHosts ==
    {h \in FabricHosts : h.disk.kind = "ok" /\ h.procs.kind = "ok" /\ h.mem2.kind = "ok"}

InitSession ==
    /\ fos \in SessionHosts
    /\ ticks \in StoppedTicks
    /\ DeviceAILoaded
    /\ RNAbsent

NextSession == DeviceAICtor \/ getDeviceInfo \/ configure \/ getSupportedFeatures

SpecSession == InitSession /\ [][NextSession]_vars

-----------------------------------------------------------------------------
(* Claims.                                                                 *)

RNResolved(method) == rnPromise.method = method /\ rnPromise.resolves = 1
Collected == call.status # "none"

\* Every OS query of getDeviceInfo has failed: through its return value, by
\* returning null, or by throwing.  GetSystemInfo returns nothing, so the CPU
\* queries have failed when the probe threw or a PDH call reported failure.
AllQueriesFail(h) ==
    /\ h.mem.kind # "ok"
    /\ h.sto.kind # "ok"
    /\ \/ h.bat.kind \in {"throw", "null"}
       \/ h.bat = BatteryReport("report", None, None, None)
    /\ h.cpu.kind = "throw" \/ h.cpu.pdh # "ok"
    /\ h.net.kind \in {"throw", "null"}
    /\ h.ver.kind # "ok"
    /\ h.proc.kind # "ok"

FallbackButCpu(v) ==
    /\ v.memory = [total |-> 8, available |-> 4]
    /\ v.storage = [total |-> 512, available |-> 256]
    /\ v.battery.level \in {Dbl(85, 1), Dbl(100, 1)}
    /\ v.battery.isCharging = FALSE
    /\ v.network \in {[type |-> "wifi", isConnected |-> TRUE],
                      [type |-> "none", isConnected |-> FALSE]}
    /\ v.osVersion = "10.0.22000"

ReadingOr(ok, reading, fallback) == IF ok THEN reading ELSE fallback

FabricFieldsSet(info, h) ==
    /\ info.osVersion # "" /\ info.buildNumber # "" /\ info.architecture # ""
    /\ info.processorName # "" /\ info.batteryStatus # "" /\ info.networkStatus # ""
    /\ info.totalMemory = ReadingOr(h.mem1.kind = "ok", h.mem1.total, 8)
    /\ info.availableMemory = ReadingOr(h.mem2.kind = "ok", h.mem2.avail, 4)
    /\ info.totalDiskSpace = ReadingOr(h.disk.kind = "ok", h.disk.total, 512)
    /\ info.availableDiskSpace = ReadingOr(h.disk.kind = "ok", h.disk.free, 256)

RNFieldsSet(v, h) ==
    /\ v.platform = "windows"
    /\ v.osVersion # ""
    /\ v.deviceModel = ReadingOr(h.proc.kind = "ok", h.proc.value, "Unknown Processor")
    /\ v.memory = ReadingOr(h.mem.kind = "ok", [total |-> h.mem.total, available |-> h.mem.avail],
                            [total |-> 8, available |-> 4])
    /\ v.storage = ReadingOr(h.sto.kind = "ok", [total |-> h.sto.total, available |-> h.sto.free],
                             [total |-> 512, available |-> 256])
    /\ v.cpu.cores > 0
    /\ v.network.type # ""

\* C2: every snapshot returned by CollectDeviceInfo and by getDeviceInfo has
\* every field set to a real reading or to that field's documented fallback,
\* never to a zero or empty default, whichever probes succeed or fail.
C2_EveryFieldSet ==
    /\ RNResolved("getDeviceInfo") => RNFieldsSet(rnPromise.value, os)
    /\ Collected => FabricFieldsSet(call.info, fos)

\* C3: in every snapshot available bytes <= total bytes, for memory and for
\* storage, in both collectors.
C3_AvailableAtMostTotal ==
    /\ RNResolved("getDeviceInfo") =>
          /\ rnPromise.value.memory.available <= rnPromise.value.memory.total
          /\ rnPromise.value.storage.available <= rnPromise.value.storage.total
    /\ Collected =>
          /\ call.info.availableMemory <= call.info.totalMemory
          /\ call.info.availableDiskSpace <= call.info.totalDiskSpace

\* C4: probe results are independent.  When the memory query succeeds the
\* memory field is its reading whatever the other queries did, and a query that
\* failed leaves its own field at its fallback (storage 512 / 256).
C4_ProbesIndependent ==
    /\ RNResolved("getDeviceInfo") =>
          /\ os.mem.kind = "ok" =>
                rnPromise.value.memory = [total |-> os.mem.total, available |-> os.mem.avail]
          /\ os.sto.kind # "ok" =>
                rnPromise.value.storage = [total |-> 512, available |-> 256]
    /\ Collected =>
          /\ fos.mem1.kind = "ok" => call.info.totalMemory = fos.mem1.total
          /\ fos.disk.kind # "ok" =>
                /\ call.info.totalDiskSpace = 512
                /\ call.info.availableDiskSpace = 256

\* C8: no collector serves a snapshot request without a successful
\* initialization: a DeviceAI exists only with an initialized fabric, and
\* ReactNativeDeviceAi answers only after its COM initialization succeeded.
C8_NoServiceWithoutInit ==
    /\ module = "constructed" => m_initialized
    /\ module = "ctor_threw" => ~m_initialized
    /\ Collected => m_initialized
    /\ rnPromise.method # "none" => ~FAILED(rnComHr)

\* C9: a probe that throws never aborts the snapshot: every probe ordered
\* after it still runs (GetCPUUsage still stores the sample it read, the
\* network status is still assigned) and no exception leaves getDeviceInfo.
C9_ThrowNeverAborts ==
    /\ RNResolved("getDeviceInfo") /\ os.mem.kind = "throw" /\ os.sto.kind = "ok" =>
          rnPromise.value.storage = [total |-> os.sto.total, available |-> os.sto.free]
    /\ Collected => call.status = "returned"
    /\ Collected /\ fos.throwAt # 0 =>
          /\ call.sample.ok /\ fos.throwAt < StepCpuUsage => cpuLast = SampleOf(call.sample)
          /\ fos.throwAt < StepNetwork => call.info.networkStatus = "Connected"

\* C10: the first call to GetCPUUsage returns 0 and stores the sample it read;
\* on a later call a stored sample counts as present whatever its tick values,
\* so a positive tick delta yields 100 * busy / total.
C10_FirstCallThenDelta ==
    Collected =>
        LET totalDiff == (call.sample.kernel - call.prior.kernel)
                         + (call.sample.user - call.prior.user)
            idleDiff == call.sample.idle - call.prior.idle
        IN  /\ call.prior = NoSample =>
                  /\ call.info.cpuUsage = Dbl(0, 1)
                  /\ call.sample.ok => cpuLast = SampleOf(call.sample)
            /\ call.prior # NoSample /\ call.sample.ok /\ totalDiff > 0 =>
                  call.info.cpuUsage = Dbl((totalDiff - idleDiff) * 100, totalDiff)

DeliveriesTo(r) == {i \in 1..Len(deliveries) : deliveries[i].id = r}
JsThreadIdle == jsQueue = <<>> /\ jsBusy = 0

SamplesTaken == {SampleOf(req[r].st) : r \in {q \in Requests : req[q].st.ok}}
InGetCPUUsage(r) ==
    req[r].pc \in {"test", "readIdle", "readKernel", "readUser", "writeIdle", "writeKernel", "writeUser"}

\* C7: the read of the previous sample, the computation and the write of the
\* new sample are one atomic step: a usage is computed from one stored sample,
\* and when no call is inside GetCPUUsage the three statics hold one sample.
C7_SampleStateAtomic ==
    /\ \A r \in Requests :
          req[r].seen # 0 /\ req[r].pc \in {"writeIdle", "writeKernel", "writeUser", "build",
                                            "jsi", "done", "delivered"}
             => req[r].rd \in SamplesTaken
    /\ (\A r \in Requests : ~InGetCPUUsage(r)) => cpuLast \in SamplesTaken \cup {NoSample}

\* The tick deltas of the last synchronous call, as mathematical integers.
KernelDelta == call.sample.kernel - call.prior.kernel
UserDelta == call.sample.user - call.prior.user
IdleDelta == call.sample.idle - call.prior.idle
TotalDelta == KernelDelta + UserDelta

\* C11: a GetCPUUsage call that has a prior sample and a positive total tick
\* delta returns 100 * busyDelta / totalDelta, with totalDelta = kernelDelta +
\* userDelta and busyDelta = totalDelta - idleDelta, no delta wrapping around.
C11_UsageIsBusyOverTotal ==
    Collected /\ call.sample.ok /\ call.prior # NoSample /\ TotalDelta > 0 =>
        /\ KernelDelta >= 0 /\ UserDelta >= 0 /\ IdleDelta >= 0
        /\ IdleDelta <= TotalDelta
        /\ call.info.cpuUsage = Dbl(100 * (TotalDelta - IdleDelta), TotalDelta)

SysInfoReturned == sysinfo.status = "returned"

\* C12: a zero denominator short-circuits to the fallback instead of being
\* divided by: GetCPUUsage with no elapsed ticks returns 0, and neither
\* GetPerformanceMetrics (total physical memory 0) nor GetBatteryInfo
\* (full-charge capacity 0) produces the result of a division by zero.
C12_NoDivisionByZero ==
    /\ Collected /\ call.sample.ok /\ TotalDelta = 0 => call.info.cpuUsage = Dbl(0, 1)
    /\ Collected => IsFinite(call.info.cpuUsage)
    /\ SysInfoReturned => IsFinite(sysinfo.object.performanceCounters.cpu_usage)
    /\ SysInfoReturned => IsFinite(sysinfo.object.performanceCounters.memory_usage)
    /\ RNResolved("getDeviceInfo") => IsFinite(rnPromise.value.battery.level)

\* C13: in every snapshot the cpu usage lies in [0, 100] and the core count
\* is a positive integer, whatever tick samples or counter values were read.
C13_CpuUsageInRange ==
    /\ RNResolved("getDeviceInfo") =>
          /\ InRange(rnPromise.value.cpu.usage, 0, 100)
          /\ rnPromise.value.cpu.cores \in Nat \ {0}
    /\ Collected => InRange(call.info.cpuUsage, 0, 100)
    /\ \A r \in Requests :
          req[r].result.kind = "value" => InRange(req[r].result.object.cpuUsage, 0, 100)

\* C14: in every snapshot the battery level is within [0, 100] or is the one
\* "no battery" sentinel (-1 in WindowsDeviceAIFabric), whatever capacity or
\* percentage the OS reported.
C14_BatteryLevelInRange ==
    /\ RNResolved("getDeviceInfo") => InRange(rnPromise.value.battery.level, 0, 100)
    /\ Collected => call.info.batteryLevel \in (0..100) \cup {-1}

NetworkTypes == {"ethernet", "wifi", "cellular", "none", "unknown"}

\* C15: in every snapshot the network type is one of ethernet, wifi, cellular,
\* none, unknown: for GetNetworkInfo over every adapter type, and for the type
\* deviceInfoToJSI emits from CollectDeviceInfo's networkStatus.
C15_NetworkTypeIsEnum ==
    /\ RNResolved("getDeviceInfo") => rnPromise.value.network.type \in NetworkTypes
    /\ Collected => deviceInfoToJSINested(call.info).network.type \in NetworkTypes
    /\ call.status = "returned" => call.object.networkType \in NetworkTypes


\* What one identity lookup of GetWmiData contributes on its own: the string it
\* read, or the fallback when the session or the query failed at any stage.
LookupAlone(w, q, fallback) ==
    IF w.locator = "ok" /\ w.connect = "ok" /\ q.kind = "ok" /\ q.value # ""
    THEN q.value
    ELSE fallback

Placeholders == {"", "Unknown"}

\* C16: an identity query that fails at any stage is replaced by the fallback
\* string of its field, never by an empty or placeholder string, and each of the three lookups of GetWmiData depends on its own query
\* only; the fabric's QueryWMI results obey the same rule.
C16_IdentityFallback ==
    /\ RNResolved("getWindowsSystemInfo") =>
        LET d == rnPromise.value.wmiData
        IN  /\ d.computerSystem =
                   LookupAlone(os.wmi, os.wmi.computerSystem, "Generic Windows Computer")
            /\ d.operatingSystem =
                   LookupAlone(os.wmi, os.wmi.operatingSystem, "Microsoft Windows")
            /\ d.processor = LookupAlone(os.wmi, os.wmi.processor, "Unknown Processor")
    /\ Collected /\ call.status = "returned" =>
        /\ call.info.buildNumber \notin Placeholders
        /\ call.info.architecture \notin Placeholders


C18_FeaturesFixed ==
    /\ features.calls = 2 => features.first = features.second
    /\ features.calls >= 1 =>
        features.first =
            IF rnState # "absent"
            THEN <<"device-insights", "native-device-info", "windows-system-info",
                   "wmi-queries", "performance-counters", "memory-info", "storage-info",
                   "battery-info", "cpu-info", "network-info">>
            ELSE <<"windows-system-info", "wmi-queries", "performance-counters",
                   "device-insights">>

C18_Witness ==
    /\ features.calls = 2
    /\ module = "constructed"
    /\ settings.m_enableWindowsNative = FALSE
    /\ settings.m_apiKey = "sk-1"
    /\ fos.mem1.kind = "fail"


C20_PairsFromOneSample ==
    /\ Collected /\ fos.throwAt = 0 =>
        /\ \E m \in {fos.mem1, fos.mem2} :
              /\ call.info.totalMemory = m.total
              /\ call.info.availableMemory = m.avail
        /\ \E p \in {fos.pow1, fos.pow2} :
              /\ call.info.batteryLevel = GetBatteryLevel(p)
              /\ call.info.batteryStatus = GetBatteryStatus(p)
    /\ RNResolved("getDeviceInfo") /\ os.mem.kind = "ok" =>
        rnPromise.value.memory = [total |-> os.mem.total, available |-> os.mem.avail]


WorkerRunning(r) == req[r].pc \notin {"none", "done", "delivered"}

\* C21: while a request's worker is computing, nothing of its snapshot or result
\* is used or changed by another thread: the future holds no result and neither
\* resolve nor reject has been called; a step that is not the worker's own
\* leaves the request's locals and result as they are; and the completion
\* callback delivers only a result the worker has stored.
C21_WorkerOwnsComputation ==
    /\ [](\A r \in Requests :
            /\ WorkerRunning(r) =>
                  /\ req[r].result.kind = "pending"
                  /\ req[r].resolves = 0 /\ req[r].rejects = 0
                  /\ DeliveriesTo(r) = {}
            /\ req[r].pc = "delivered" => req[r].result.kind # "pending")
    /\ [][\A r \in Requests :
            WorkerRunning(r) /\ req'[r].pc = req[r].pc => req'[r] = req[r]]_vars

\* Two workers are computing while the JS thread waits in the first call's
\* future.get().
C21_Witness ==
    /\ jsBusy = 1
    /\ req[1].pc = "writeKernel"
    /\ req[2].pc = "readUser"


\* Positions of the probe's calls at which a formatted counter value is read.
FormatReads == {i \in 1..Len(pdh.calls) : pdh.calls[i].api = "PdhGetFormattedCounterValue"}

\* C22: a formatted counter value is read only after PdhCollectQueryData,
\* Sleep(100) and PdhCollectQueryData have been called, in that order.
C22_ReadAfterDoubleSample ==
    \A i \in FormatReads :
        \E j \in 1..(i - 3) :
            /\ pdh.calls[j] = PdhCall("PdhCollectQueryData", "unchecked")
            /\ pdh.calls[j + 1] = PdhCall("Sleep", "100 ms")
            /\ pdh.calls[j + 2] = PdhCall("PdhCollectQueryData", "unchecked")

C22_Witness ==
    /\ RNResolved("getWindowsSystemInfo")
    /\ Cardinality(FormatReads) = 3
    /\ os.perf.cpu.fmt = "ok"


\* C25: every PDH query a probe opened is closed before the probe returns, so
\* the process holds no open query between calls.
C25_NoOpenQueryBetweenCalls ==
    /\ pdh.open = 0
    /\ Opened(pdh.calls) = Closed(pdh.calls)


InRuntime == {r \in Requests : req[r].pc = "jsi"}

\* C24: the runtime is used by one thread at a time: at most one worker is
\* inside deviceInfoToJSI, and while a worker is there the JS thread makes no
\* call that uses the runtime (it neither runs getDeviceInfoAsync nor calls
\* resolve or reject).
C24_RuntimeOneThreadAtATime ==
    /\ [](Cardinality(InRuntime) <= 1)
    /\ [][(\E r \in Requests : req[r].pc = "jsi" /\ req'[r].pc = "jsi") =>
             /\ Issued' = Issued
             /\ deliveries' = deliveries]_vars


\* C26: the derived 'used' quantities never wrap: usedMemory and usedStorage
\* of the JS object, and the 'used' entries of GetMemoryInfo and
\* GetStorageInfo, lie between 0 and the total they were derived from.
C26_UsedNeverWraps ==
    /\ call.status = "returned" =>
          /\ call.object.usedMemory \in 0..call.object.totalMemory
          /\ call.object.usedStorage \in 0..call.object.totalStorage
    /\ SysInfoReturned =>
          sysinfo.object.systemMetrics.used \in 0..sysinfo.object.systemMetrics.total
    /\ module = "constructed" =>
          \A d \in {FabricGetStorageInfo(fos)[i] : i \in 1..Len(FabricGetStorageInfo(fos))} :
              d.used \in 0..d.total


\* C27: the map GetMemoryInfo returns satisfies used + available = total, also
\* when the host's available memory changes between the reads of one call.
C27_MemoryInfoConsistent ==
    SysInfoReturned =>
        U64Add(sysinfo.object.systemMetrics.used, sysinfo.object.systemMetrics.available)
            = sysinfo.object.systemMetrics.total


\* C28: CollectDeviceInfo on a fabric whose Initialize has not returned true
\* enters no probe, leaves GetCPUUsage's statics as they were and returns the
\* zero-initialized record; m_initialized is false until Initialize returns
\* true and no operation sets it back to false.
C28_UninitializedFabricIsInert ==
    /\ [](/\ m_initialized = direct.initOk
          /\ direct.collected /\ ~direct.okAtCall =>
                /\ direct.probes = {}
                /\ cpuLast = call.prior
                /\ call.info = ZeroInfo
          /\ direct.feature = "wmi" => direct.supported = direct.okAtQuery)
    /\ [][m_initialized => m_initialized']_vars

\* An uninitialized fabric has answered CollectDeviceInfo after a failed
\* Initialize, GetSystemTimes standing ready with a sample.
C28_Witness ==
    /\ direct.collected /\ ~direct.okAtCall /\ ~direct.initOk
    /\ call.status = "collected" /\ call.sample.ok /\ call.sample.idle # 0
    /\ call.info = ZeroInfo /\ cpuLast = NoSample


\* C29: run sequentially, GetCPUUsage stores the sample exactly when
\* GetSystemTimes succeeds: the statics then equal the sample just read,
\* whether a usage or 0.0 was returned; when GetSystemTimes fails they are
\* left as they were and 0.0 is returned.
C29_SampleStoredIffRead ==
    Collected =>
        /\ call.sample.ok => cpuLast = SampleOf(call.sample)
        /\ ~call.sample.ok => cpuLast = call.prior /\ call.info.cpuUsage = Dbl(0, 1)

\* A call on the zero-usage path of a successful read (no earlier idle sample)
\* has stored what it read.
C29_Witness ==
    /\ call.status = "returned" /\ call.sample.ok
    /\ call.prior = NoSample /\ call.info.cpuUsage = Dbl(0, 1)
    /\ call.sample.idle # 0
    /\ cpuLast = SampleOf(call.sample)


\* The type strings that say there is no connection: GetNetworkInfo's and the
\* one deviceInfoToJSI tests networkStatus against.
NotConnectedTypes == {"none", "Disconnected"}

\* C30: in every snapshot the network fields agree: GetNetworkInfo reports
\* isConnected false exactly when its type is "none", and the isConnected that
\* deviceInfoToJSI derives from networkStatus is false exactly when the type
\* emitted beside it says there is no connection.
C30_NetworkFieldsAgree ==
    /\ RNResolved("getDeviceInfo") =>
          (~rnPromise.value.network.isConnected <=> rnPromise.value.network.type = "none")
    /\ Collected =>
          LET network == deviceInfoToJSINested(call.info).network
          IN  ~network.isConnected <=> network.type \in NotConnectedTypes

\* A snapshot of a host without an internet connection profile.
C30_Witness ==
    /\ RNResolved("getDeviceInfo")
    /\ os.net.kind = "null"
    /\ rnPromise.value.network = [type |-> "none", isConnected |-> FALSE]

=============================================================================
